---- MODULE Spec2Model ----
(***************************************************************************)
(* HTTPServer (src/src/TLSTickets.cpp, lines 66-382): the listener socket, *)
(* the fixed array of connection slots, the pending-connection gate and    *)
(* the start / stop / loop operations, as a state machine; the default     *)
(* headers handed to each connection; the timing arithmetic of loop().     *)
(*                                                                         *)
(* The server context executes one public operation at a time; pc is its   *)
(* position inside that operation.  The transport (inbound connections     *)
(* queueing on the listener) and, in the HTTPS_TASK_PER_CONNECTION build,  *)
(* the connection tasks run concurrently with it.                          *)
(***************************************************************************)
EXTENDS Integers, Sequences, FiniteSets, TLC

\* Bounds of the model.
MaxN == 2          \* largest maxConnections explored
MaxBacklog == 1    \* inbound connections the transport holds at most
MaxCloseReq == 2   \* closeConnection() requests a responsive peer needs at most

\* uint32_t values are kept as two 16-bit halves, so that sums and
\* differences wrap at 2^32 as they do on the target.
Half == 65536

\* The uint32_t with the value of the int n, 0 <= n < 2^31.
U32(n) == [hi |-> n \div Half, lo |-> n % Half]

\* a + b and a - b in uint32_t.
Add32(a, b) ==
  LET lo == a.lo + b.lo
  IN  [hi |-> (a.hi + b.hi + (lo \div Half)) % Half, lo |-> lo % Half]

Sub32(a, b) ==
  LET borrow == IF a.lo < b.lo THEN 1 ELSE 0
  IN  [hi |-> (a.hi - b.hi - borrow + 2 * Half) % Half,
       lo |-> (a.lo - b.lo + Half) % Half]

\* a > 0x7FFFFFFF
Above7FFFFFFF(a) == a.hi >= Half \div 2

\* The int with the value of a uint32_t that is at most 0x7FFFFFFF.
AsInt(a) == a.hi * Half + a.lo

\* An empty slot (_connections[i] == NULL).
NULL == [st |-> "NULL", term |-> FALSE, stubborn |-> FALSE, headers |-> << >>]

VARIABLES
  maxConnections,      \* _maxConnections, fixed by the constructor
  taskPerConnection,   \* TRUE iff built with HTTPS_TASK_PER_CONNECTION
  _connections,        \* the slot array, index 0 .. maxConnections-1
  _socket,             \* listener descriptor, -1 when unbound
  _running,
  _pendingConnection,  \* the gate
  _pendingQueue,       \* the one-item FreeRTOS queue, as a sequence
  backlog,             \* inbound connections waiting on the listener
  pc,                  \* position of the server context
  freeConnectionIdx,   \* local of loop()
  entryGate,           \* _pendingConnection when the running loop() call began
  reclaimed,           \* slots the running loop() call has reclaimed
  admits,              \* indices the running loop() call passed to startConnection
  overwrote,           \* createConnection stored over a non-NULL slot, at some time
  sweeps,              \* sweeps of the running stop() call, capped
  setup,               \* how far the system calls of the last setupSocket() got
  setupRes,            \* return value of setupSocket(), until start() has read it
  ret,                 \* the last start() or stop() call completed, with its result
  _defaultHeaders,     \* header name -> value, as setDefaultHeader left it
  timeoutMs,           \* argument of the loop() call whose timing is followed
  startMs,             \* local of loop(): millis() when the call began
  nowMs,               \* what millis() returns
  timeout,             \* local of loop(): the timeval handed to select()
  deltaMs,             \* return value of loop()
  tpc                  \* position inside the loop() call whose timing is followed

\* The variables of the timing of one loop() call.
clock == << timeoutMs, startMs, nowMs, timeout, deltaMs, tpc >>

vars == << maxConnections, taskPerConnection, _connections, _socket, _running,
           _pendingConnection, _pendingQueue, backlog, pc, freeConnectionIdx,
           entryGate, reclaimed, admits, overwrote, sweeps, setup, setupRes, ret,
           _defaultHeaders, clock >>

Slots == 0 .. (maxConnections - 1)

\* The server's own fields, without the model's bookkeeping.
serverState == << _connections, _socket, _running, _pendingConnection, _pendingQueue >>

\* Locals and bookkeeping of loop().
loopVars == << freeConnectionIdx, entryGate, reclaimed, admits >>

\* Locals of start()/setupSocket() and stop(), with their bookkeeping.
setupVars == << setup, setupRes >>

----------------------------------------------------------------------------
(* HTTPServer::HTTPServer *)

Init ==
  /\ maxConnections \in 1 .. MaxN
  /\ taskPerConnection \in BOOLEAN
  /\ _connections = [i \in 0 .. (maxConnections - 1) |-> NULL]
  /\ _socket = -1
  /\ _pendingQueue = << >>
  /\ _pendingConnection = FALSE
  /\ _running = FALSE
  /\ backlog = 0
  /\ pc = "idle"
  /\ freeConnectionIdx = -1
  /\ entryGate = FALSE
  /\ reclaimed = {}
  /\ admits = << >>
  /\ overwrote = FALSE
  /\ sweeps = 0
  /\ setup = "none"
  /\ setupRes = 0
  /\ ret = "none"
  /\ _defaultHeaders = << >>
  /\ timeoutMs = 0
  /\ startMs = U32(0)
  /\ nowMs = U32(0)
  /\ timeout = [tv_sec |-> 0, tv_usec |-> 0]
  /\ deltaMs = 0
  /\ tpc = "none"

----------------------------------------------------------------------------
(* The transport and the connection objects (HTTPConnection is not part of *)
(* these sources: its contract is modelled).                               *)

\* Descriptors socket() can hand out; -1 is its failure.
SocketFds == {0}

\* listen() succeeded on _socket and the socket has not been closed since.
Listening == _socket >= 0 /\ setup = "ok"

\* A connection object right after construction and initialize().
\* initialize(_socket, &_defaultHeaders): the connection keeps the default
\* headers as they are when it is admitted.
initialize(c, defaultHeaders) == [c EXCEPT !.headers = defaultHeaders]

NewConnection(state, defaultHeaders) ==
  initialize([st |-> state, term |-> FALSE, stubborn |-> FALSE, headers |-> << >>],
             defaultHeaders)

isTerminated(c) == c.term

\* closeConnection() then isClosed() on the occupant of slot i, in a sweep
\* during which the peers of the slots in closing acknowledge the close.
isClosed(i, closing) == i \in closing

\* acceptConnection() against a backlog b: the result codes it can return and
\* the backlog it leaves.  >0 is success and takes one inbound connection; a
\* failure (<=0) may or may not have taken one.
acceptConnection(b) ==
  IF b > 0
  THEN {[res |-> 1, left |-> b - 1]}
       \cup {[res |-> r, left |-> l] : r \in {0, -1}, l \in {b - 1, b}}
  ELSE {[res |-> r, left |-> 0] : r \in {0, -1}}

\* An inbound connection reaches the listening socket.
Arrive ==
  /\ Listening
  /\ backlog < MaxBacklog
  /\ backlog' = backlog + 1
  /\ UNCHANGED << maxConnections, taskPerConnection, _defaultHeaders, clock,
                  serverState, pc, loopVars, overwrote, sweeps, setupVars,
                  ret >>

\* A queued inbound connection is dropped by its peer before it is accepted.
InboundAbort ==
  /\ backlog > 0
  /\ backlog' = backlog - 1
  /\ UNCHANGED << maxConnections, taskPerConnection, _defaultHeaders, clock,
                  serverState, pc, loopVars, overwrote, sweeps, setupVars,
                  ret >>

----------------------------------------------------------------------------
(* HTTPServer::start, HTTPServer::setupSocket *)

StartCall ==
  /\ pc = "idle"
  /\ IF ~_running
     THEN /\ pc' = "setup_socket"
          /\ setup' = "none"
          /\ sweeps' = 0
          /\ ret' = ret
     ELSE /\ ret' = "start_1"
          /\ UNCHANGED << pc, setup, sweeps >>
  /\ UNCHANGED << maxConnections, taskPerConnection, _defaultHeaders, clock,
                  serverState, backlog, loopVars, overwrote, setupRes >>

\* setupSocket(), first step:
\*   _socket = socket(AF_INET, SOCK_STREAM, 0);
\*   if (_socket>=0) { ... } else { _socket = -1; return 0; }
afterSocket(fd) ==
  IF fd >= 0
  THEN [sock |-> fd, next |-> "setup_bind", res |-> 0]
  ELSE [sock |-> -1, next |-> "start_ret", res |-> 0]

\* The bind step with the bind failure path leaving _socket as it is.
afterBindKeepsSocket(sock, err) ==
  IF err = 0
  THEN [sock |-> sock, next |-> "setup_listen", res |-> 0]
  ELSE [sock |-> sock, next |-> "start_ret", res |-> 0]

\* setupSocket(), second step:
\*   int err = bind(_socket, ...);
\*   if(!err) { ... } else { close(_socket); _socket = -1; return 0; }
afterBind(sock, err) ==
  IF err = 0
  THEN [sock |-> sock, next |-> "setup_listen", res |-> 0]
  ELSE [sock |-> -1, next |-> "start_ret", res |-> 0]

\* setupSocket(), third step:
\*   err = listen(_socket, _maxConnections);
\*   if (!err) { return 1; } else { close(_socket); _socket = -1; return 0; }
afterListen(sock, err) ==
  IF err = 0
  THEN [sock |-> sock, next |-> "start_ret", res |-> 1]
  ELSE [sock |-> -1, next |-> "start_ret", res |-> 0]

SetupSocket ==
  /\ pc = "setup_socket"
  /\ \E fd \in SocketFds \cup {-1} :
       LET o == afterSocket(fd) IN
         /\ _socket' = o.sock
         /\ pc' = o.next
         /\ setupRes' = o.res
         /\ setup' = IF fd >= 0 THEN setup ELSE "socket_failed"
  /\ UNCHANGED << maxConnections, taskPerConnection, _defaultHeaders, clock,
                  _connections, _running, _pendingConnection, _pendingQueue,
                  backlog, loopVars, overwrote, sweeps, ret >>

SetupBind ==
  /\ pc = "setup_bind"
  /\ \E err \in {0, -1} :
       LET o == afterBind(_socket, err) IN
         /\ _socket' = o.sock
         /\ pc' = o.next
         /\ setupRes' = o.res
         /\ setup' = IF err = 0 THEN setup ELSE "bind_failed"
  /\ UNCHANGED << maxConnections, taskPerConnection, _defaultHeaders, clock,
                  _connections, _running, _pendingConnection, _pendingQueue,
                  backlog, loopVars, overwrote, sweeps, ret >>

SetupListen ==
  /\ pc = "setup_listen"
  /\ \E err \in {0, -1} :
       LET o == afterListen(_socket, err) IN
         /\ _socket' = o.sock
         /\ pc' = o.next
         /\ setupRes' = o.res
         /\ setup' = IF err = 0 THEN "ok" ELSE "listen_failed"
  /\ UNCHANGED << maxConnections, taskPerConnection, _defaultHeaders, clock,
                  _connections, _running, _pendingConnection, _pendingQueue,
                  backlog, loopVars, overwrote, sweeps, ret >>

\* if (setupSocket()) { _running = true; return 1; } return 0;
StartReturn ==
  /\ pc = "start_ret"
  /\ IF setupRes # 0
     THEN /\ _running' = TRUE
          /\ ret' = "start_1"
     ELSE /\ _running' = _running
          /\ ret' = "start_0"
  /\ pc' = "idle"
  /\ setupRes' = 0
  /\ UNCHANGED << maxConnections, taskPerConnection, _defaultHeaders, clock,
                  _connections, _socket, _pendingConnection, _pendingQueue,
                  backlog, loopVars, overwrote, sweeps, setup >>

----------------------------------------------------------------------------
(* HTTPServer::stop, HTTPServer::teardownSocket *)

\* if (_running) { _running = false; ... }.  Which occupants have a peer
\* that never acknowledges the close is fixed when the call begins.
StopCall ==
  /\ pc = "idle"
  /\ IF _running
     THEN /\ _running' = FALSE
          /\ pc' = "stop_sweep"
          /\ sweeps' = 0
          /\ ret' = ret
          /\ \E S \in SUBSET Slots :
               _connections' =
                 [i \in Slots |-> IF _connections[i] = NULL THEN NULL
                                  ELSE [_connections[i] EXCEPT !.stubborn = i \in S]]
     ELSE /\ ret' = "stop"
          /\ UNCHANGED << _running, pc, sweeps, _connections >>
  /\ UNCHANGED << maxConnections, taskPerConnection, _defaultHeaders, clock,
                  _socket, _pendingConnection, _pendingQueue, backlog,
                  loopVars, overwrote, setupVars >>

\* The occupants whose peer acknowledges the close at some request.
Responsive(conns) == {i \in DOMAIN conns : conns[i] # NULL /\ ~conns[i].stubborn}

\* The sets of occupants that can report closed in the sweep after `done`
\* sweeps: any responsive ones, and all of them at the MaxCloseReq-th request.
ClosingSets(conns, done) ==
  IF done + 1 >= MaxCloseReq THEN {Responsive(conns)}
  ELSE SUBSET Responsive(conns)

\* The sweep body with the delete done without asking isClosed().
SweepBodyNoCheck(acc, i, closing) ==
  IF acc.conns[i] # NULL
  THEN [acc EXCEPT !.conns[i] = NULL]
  ELSE acc

\* The sweep body without the else branch that sets hasOpenConnections.
SweepBodyNoRetry(acc, i, closing) ==
  IF acc.conns[i] # NULL
  THEN IF isClosed(i, closing)
       THEN [acc EXCEPT !.conns[i] = NULL]
       ELSE acc
  ELSE acc

\* Body of the for loop of stop(), lines 132-143; acc.open is hasOpenConnections.
SweepBody(acc, i, closing) ==
  IF acc.conns[i] # NULL
  THEN IF isClosed(i, closing)
       THEN [acc EXCEPT !.conns[i] = NULL]
       ELSE [acc EXCEPT !.open = TRUE]
  ELSE acc

RECURSIVE SweepFrom(_, _, _, _)
SweepFrom(acc, i, n, closing) ==
  IF i >= n THEN acc ELSE SweepFrom(SweepBody(acc, i, closing), i + 1, n, closing)

\* hasOpenConnections = false; for(int i = 0; i < _maxConnections; i++) ...
Sweep(conns, n, closing) ==
  SweepFrom([conns |-> conns, open |-> FALSE], 0, n, closing)

\* One iteration of while(hasOpenConnections), up to and including delay(1).
StopSweep ==
  /\ pc = "stop_sweep"
  /\ \E closing \in ClosingSets(_connections, sweeps) :
       LET r == Sweep(_connections, maxConnections, closing) IN
         /\ _connections' = r.conns
         /\ pc' = IF r.open THEN "stop_sweep" ELSE "stop_teardown"
  /\ sweeps' = IF sweeps <= MaxCloseReq THEN sweeps + 1 ELSE sweeps
  /\ UNCHANGED << maxConnections, taskPerConnection, _defaultHeaders, clock,
                  _socket, _running, _pendingConnection, _pendingQueue,
                  backlog, loopVars, overwrote, setupVars, ret >>

\* teardownSocket() that closes the descriptor and keeps its number.
teardownSocketKeeps(sock) == sock

\* teardownSocket(): close(_socket); _socket = -1;
teardownSocket(sock) == -1

\* teardownSocket(), then stop() returns.  Closing the listener drops what
\* was queued on it.
StopTeardown ==
  /\ pc = "stop_teardown"
  /\ _socket' = teardownSocket(_socket)
  /\ backlog' = 0
  /\ pc' = "idle"
  /\ ret' = "stop"
  /\ UNCHANGED << maxConnections, taskPerConnection, _defaultHeaders, clock,
                  _connections, _running, _pendingConnection, _pendingQueue,
                  loopVars, overwrote, sweeps, setupVars >>

----------------------------------------------------------------------------
(* HTTPServer::loop, step 1 (lines 190-214) *)

\* if (!_running) { delay(timeoutMs); return 0; }: a stopped server only
\* sleeps.  Otherwise the call begins.
LoopCall ==
  /\ pc = "idle"
  /\ IF _running
     THEN /\ pc' = "loop_scan"
          /\ entryGate' = _pendingConnection
     ELSE UNCHANGED << pc, entryGate >>
  /\ UNCHANGED << maxConnections, taskPerConnection, _defaultHeaders, clock,
                  serverState, backlog, freeConnectionIdx, reclaimed, admits,
                  overwrote, sweeps, setupVars, ret >>

\* The scan body stopping at the first free index it meets.
ScanBodyFirstFree(acc, i) ==
  IF acc.conns[i] = NULL
  THEN [acc EXCEPT !.free = IF acc.free = -1 THEN i ELSE acc.free]
  ELSE IF isTerminated(acc.conns[i])
       THEN [conns |-> [acc.conns EXCEPT ![i] = NULL],
             free |-> IF acc.free = -1 THEN i ELSE acc.free]
       ELSE acc

\* The scan body without "freeConnectionIdx = i" after the delete.
ScanBodyForgetsFreed(acc, i) ==
  IF acc.conns[i] = NULL
  THEN [acc EXCEPT !.free = i]
  ELSE IF isTerminated(acc.conns[i])
       THEN [acc EXCEPT !.conns[i] = NULL]
       ELSE acc

\* The scan body deleting a terminated occupant only while no free index is known.
ScanBodyOneReclaim(acc, i) ==
  IF acc.conns[i] = NULL
  THEN [acc EXCEPT !.free = i]
  ELSE IF isTerminated(acc.conns[i]) /\ acc.free = -1
       THEN [conns |-> [acc.conns EXCEPT ![i] = NULL], free |-> i]
       ELSE acc

\* The scan body deleting every occupant, terminated or not.
ScanBodyReclaimsLive(acc, i) ==
  IF acc.conns[i] = NULL
  THEN [acc EXCEPT !.free = i]
  ELSE [conns |-> [acc.conns EXCEPT ![i] = NULL], free |-> i]

\* Body of the for loop of step 1; acc.free is freeConnectionIdx.  The
\* except_fds / max_fd bookkeeping only decides when select() wakes up.
ScanBody(acc, i) ==
  IF acc.conns[i] = NULL
  THEN [acc EXCEPT !.free = i]
  ELSE IF isTerminated(acc.conns[i])
       THEN [conns |-> [acc.conns EXCEPT ![i] = NULL], free |-> i]
       ELSE acc

RECURSIVE ScanFrom(_, _, _)
ScanFrom(acc, i, n) ==
  IF i >= n THEN acc ELSE ScanFrom(ScanBody(acc, i), i + 1, n)

\* The scan stepping over the slot that follows a deleted one.
RECURSIVE ScanFromSkipping(_, _, _)
ScanFromSkipping(acc, i, n) ==
  IF i >= n THEN acc
  ELSE LET a == ScanBody(acc, i) IN
         ScanFromSkipping(a, IF a.conns # acc.conns THEN i + 2 ELSE i + 1, n)

ProcessConnectionsSkipping(conns, n) ==
  ScanFromSkipping([conns |-> conns, free |-> -1], 0, n)

\* int freeConnectionIdx = -1; for (int i = 0; i < _maxConnections; i++) ...
ProcessConnections(conns, n) == ScanFrom([conns |-> conns, free |-> -1], 0, n)

\* The slot array the reclamation pass leaves.
Reclaim(conns) == ProcessConnections(conns, maxConnections).conns

\* _connections[i]->loop() (built without HTTPS_TASK_PER_CONNECTION): the
\* occupants in T end their connection while being processed.
ConnectionLoops(conns, T) ==
  [i \in DOMAIN conns |-> IF i \in T THEN [conns[i] EXCEPT !.term = TRUE]
                          ELSE conns[i]]

\* The occupants that step 1 found open.
Live(conns) == {i \in DOMAIN conns : conns[i] # NULL /\ ~isTerminated(conns[i])}

LoopScan ==
  /\ pc = "loop_scan"
  /\ LET r == ProcessConnections(_connections, maxConnections) IN
       /\ freeConnectionIdx' = r.free
       /\ reclaimed' = {i \in Slots : _connections[i] # NULL /\ r.conns[i] = NULL}
       /\ IF taskPerConnection
          THEN _connections' = r.conns
          ELSE \E T \in SUBSET Live(r.conns) :
                 _connections' = ConnectionLoops(r.conns, T)
  /\ pc' = "loop_pending"
  /\ UNCHANGED << maxConnections, taskPerConnection, _defaultHeaders, clock,
                  _socket, _running, _pendingConnection, _pendingQueue, backlog,
                  entryGate, admits, overwrote, sweeps, setupVars, ret >>

----------------------------------------------------------------------------
(* HTTPServer::startConnection, createConnection, startConnectionTask *)

\* _pendingQueue = xQueueCreate(1, sizeof(int))
QueueLength == 1

\* xQueueSend(_pendingQueue, &item, 0): fails at once when the queue is full.
xQueueSend(q, item) == IF Len(q) < QueueLength THEN Append(q, item) ELSE q

\* A receive that leaves the item in the queue.
xQueueReceiveKeeps(q) == q

\* xQueueReceive(_pendingQueue, &dummy, 0): takes the item, if there is one.
xQueueReceive(q) == IF Len(q) > 0 THEN Tail(q) ELSE q

createConnectionNoHeaders(b) ==
  IF taskPerConnection
  THEN {[conn |-> NewConnection("init", << >>), res |-> r, left |-> b] :
          r \in {1, -1}}
  ELSE {[conn |-> NewConnection(IF a.res > 0 THEN "open" ELSE "failed", << >>),
         res |-> a.res, left |-> a.left] : a \in acceptConnection(b)}

\* createConnection(idx) against a backlog b: the connection it leaves in the
\* slot, its return value and the backlog afterwards.  With a task per
\* connection it returns what startConnectionTask() returns (1, or -1 when
\* xTaskCreate fails) and the accept is left to the task; otherwise it returns
\* what acceptConnection() returns.
createConnection(b) ==
  IF taskPerConnection
  THEN {[conn |-> NewConnection("init", _defaultHeaders), res |-> r, left |-> b] :
          r \in {1, -1}}
  ELSE {[conn |-> NewConnection(IF a.res > 0 THEN "open" ELSE "failed",
                                _defaultHeaders),
         res |-> a.res, left |-> a.left] : a \in acceptConnection(b)}

\* if (socketIdentifier < 0) { delete _connections[idx]; _connections[idx] = NULL; }
discards(socketIdentifier) == socketIdentifier < 0

\* startConnection without its first statement.
startConnectionKeepsGate(idx) ==
  \E o \in createConnection(backlog) :
    /\ _pendingConnection' = _pendingConnection
    /\ _pendingQueue' = xQueueReceive(_pendingQueue)
    /\ overwrote' = (overwrote \/ _connections[idx] # NULL)
    /\ _connections' = [_connections EXCEPT
                          ![idx] = IF discards(o.res) THEN NULL ELSE o.conn]
    /\ backlog' = o.left
    /\ admits' = Append(admits, idx)

startConnection(idx) ==
  \E o \in createConnection(backlog) :
    /\ _pendingConnection' = FALSE
    /\ _pendingQueue' = xQueueReceive(_pendingQueue)
    /\ overwrote' = (overwrote \/ _connections[idx] # NULL)
    /\ _connections' = [_connections EXCEPT
                          ![idx] = IF discards(o.res) THEN NULL ELSE o.conn]
    /\ backlog' = o.left
    /\ admits' = Append(admits, idx)

----------------------------------------------------------------------------
(* HTTPServer::loop, step 2 (lines 216-226) *)

\* Step 2 entered whenever a slot is free, pending connection or not.
admitsPendingAlways(pending, free) == free > -1

\* if (_pendingConnection && (freeConnectionIdx > -1))
admitsPending(pending, free) == pending /\ free > -1

RECURSIVE RescanFrom(_, _, _, _)
RescanFrom(conns, free, i, n) ==
  IF i >= n THEN free
  ELSE RescanFrom(conns, IF conns[i] = NULL THEN i ELSE free, i + 1, n)

\* Step 2 without the second scan: the index just used is kept.
PendingRescanStale(conns, used, n) == used

\* freeConnectionIdx = -1; for (...) if (_connections[i] == NULL) freeConnectionIdx = i;
PendingRescan(conns, used, n) == RescanFrom(conns, -1, 0, n)

LoopPending ==
  /\ pc = "loop_pending"
  /\ IF admitsPending(_pendingConnection, freeConnectionIdx)
     THEN /\ startConnection(freeConnectionIdx)
          /\ freeConnectionIdx' =
               PendingRescan(_connections', freeConnectionIdx, maxConnections)
     ELSE UNCHANGED << _pendingConnection, _pendingQueue, overwrote,
                       _connections, backlog, admits, freeConnectionIdx >>
  /\ pc' = "loop_poll"
  /\ UNCHANGED << maxConnections, taskPerConnection, _defaultHeaders, clock,
                  _socket, _running, entryGate, reclaimed, sweeps, setupVars,
                  ret >>

----------------------------------------------------------------------------
(* HTTPServer::loop, steps 3 and after (lines 228-265) *)

\* if (!_pendingConnection) FD_SET(_socket, &read_fds);
listenerWatched(pending) == ~pending

\* (nfds > 0) && FD_ISSET(_socket, &read_fds): select() reports the listener
\* when it was in the read set and an inbound connection is queued on it.
listenerReady == listenerWatched(_pendingConnection) /\ backlog > 0

\* The branch after select() with the gate never raised.
afterSelectNeverGates(ready, free, pending) ==
  IF ready /\ free > -1 THEN "admit" ELSE "none"

\* if (ready) { if (freeConnectionIdx > -1) startConnection(..);
\*              else if (!_pendingConnection) { gate } }
afterSelect(ready, free, pending) ==
  IF ready
  THEN IF free > -1 THEN "admit"
       ELSE IF ~pending THEN "gate" ELSE "none"
  ELSE "none"

LoopPoll ==
  /\ pc = "loop_poll"
  /\ LET branch == afterSelect(listenerReady, freeConnectionIdx, _pendingConnection) IN
       CASE branch = "admit" ->
              startConnection(freeConnectionIdx)
         [] branch = "gate" ->
              /\ _pendingConnection' = TRUE
              /\ _pendingQueue' = xQueueSend(_pendingQueue, _socket)
              /\ UNCHANGED << _connections, backlog, overwrote, admits >>
         [] OTHER ->
              UNCHANGED << _pendingConnection, _pendingQueue, _connections,
                           backlog, overwrote, admits >>
  /\ pc' = "loop_ret"
  /\ UNCHANGED << maxConnections, taskPerConnection, _defaultHeaders, clock,
                  _socket, _running, freeConnectionIdx, entryGate, reclaimed,
                  sweeps, setupVars, ret >>

\* The residual is computed and loop() returns.
LoopReturn ==
  /\ pc = "loop_ret"
  /\ pc' = "idle"
  /\ freeConnectionIdx' = -1
  /\ entryGate' = FALSE
  /\ reclaimed' = {}
  /\ admits' = << >>
  /\ UNCHANGED << maxConnections, taskPerConnection, _defaultHeaders, clock,
                  serverState, backlog, overwrote, sweeps, setupVars, ret >>

----------------------------------------------------------------------------
(* HTTPServer::setDefaultHeader *)

\* Names and values the application sets.
HeaderNames == {"X"}
HeaderValues == {"1", "2"}

\* HTTPHeaders::set: the header replaces the one of the same name, or is
\* added at the end.
setHeader(headers, name, value) ==
  IF \E k \in 1 .. Len(headers) : headers[k].name = name
  THEN [k \in 1 .. Len(headers) |->
          IF headers[k].name = name THEN [name |-> name, value |-> value]
          ELSE headers[k]]
  ELSE Append(headers, [name |-> name, value |-> value])

\* _defaultHeaders.set(new HTTPHeader(name, value));
setDefaultHeader(name, value) ==
  _defaultHeaders' = setHeader(_defaultHeaders, name, value)

SetDefaultHeader ==
  /\ pc = "idle"
  /\ \E name \in HeaderNames, value \in HeaderValues : setDefaultHeader(name, value)
  /\ UNCHANGED << maxConnections, taskPerConnection, serverState, backlog, pc,
                  loopVars, overwrote, sweeps, setupVars, ret, clock >>

----------------------------------------------------------------------------
(* HTTPServer::loop, its timing: the timeval handed to select() and the    *)
(* residual it returns, followed for one call at a time.                   *)

\* Everything but the timing of the call.
untimed == << maxConnections, taskPerConnection, serverState, backlog, pc,
              loopVars, overwrote, sweeps, setupVars, ret, _defaultHeaders >>

\* Arguments loop() is called with, in milliseconds.
Budgets == {0, 1, 999, 1000, 1500, 60000, 2147483647}

\* Values of millis() when a call begins: just after boot, in the middle of
\* its range, and just before it wraps.
StartTimes == {U32(0), [hi |-> Half \div 2 - 1, lo |-> Half - 1],
               [hi |-> Half - 1, lo |-> Half - 1000]}

\* 2^31 as a uint32_t.
TwoTo31 == [hi |-> Half \div 2, lo |-> 0]

\* Milliseconds that can pass between the two millis() reads of a call with
\* budget b: none, one, the budget, just over it, and spans around 2^31 more
\* than the budget (a call held up in a blocking accept for weeks).
Elapsed(b) ==
  {U32(0), U32(1), U32(b), Add32(U32(b), U32(1)),
   Add32(U32(b), TwoTo31), Add32(Add32(U32(b), TwoTo31), U32(1)),
   [hi |-> Half - 1, lo |-> Half - 1]}

\* The largest long of the target (32 bits).
LongMax == 2147483647

\* v * 1000 in uint32_t.
TimesThousand32(v) ==
  LET lo == v.lo * 1000
  IN  [hi |-> (v.hi * 1000 + (lo \div Half)) % Half, lo |-> lo % Half]

\* x * 1000 in long, for x >= 0.  A product beyond LongMax is undefined
\* behaviour: the wrapped value, or a value the compiler left instead.
TimesThousand(x) ==
  IF x <= LongMax \div 1000
  THEN {x * 1000}
  ELSE LET w == TimesThousand32(U32(x))
       IN  {IF Above7FFFFFFF(w) THEN -AsInt(Sub32(U32(0), w)) ELSE AsInt(w),
            0, -1}

\* timeout.tv_sec = (timeoutMs / 1000);
\* timeout.tv_usec = (timeoutMs - timeout.tv_sec) * 1000;
Timevals(ms) ==
  LET sec == ms \div 1000
  IN  {[tv_sec |-> sec, tv_usec |-> usec] : usec \in TimesThousand(ms - sec)}

\* uint32_t deltaMs = (startMs + timeoutMs - millis());
\* if (deltaMs > 0x7FFFFFFF) deltaMs = 0;
Residual(start, ms, now) ==
  LET d == Sub32(Add32(start, U32(ms)), now)
  IN  IF Above7FFFFFFF(d) THEN 0 ELSE AsInt(d)

\* loop(timeoutMs) is entered: a stopped server delays and returns 0, a
\* running one reads the clock.
TimedLoopCall ==
  /\ tpc = "entry"
  /\ IF ~_running
     THEN /\ \E e \in Elapsed(timeoutMs) : nowMs' = Add32(nowMs, e)
          /\ deltaMs' = 0
          /\ tpc' = "done"
          /\ startMs' = startMs
     ELSE /\ startMs' = nowMs
          /\ tpc' = "timeout"
          /\ UNCHANGED << nowMs, deltaMs >>
  /\ UNCHANGED << untimed, timeoutMs, timeout >>

TimedTimeout ==
  /\ tpc = "timeout"
  /\ timeout' \in Timevals(timeoutMs)
  /\ tpc' = "select"
  /\ UNCHANGED << untimed, timeoutMs, startMs, nowMs, deltaMs >>

\* Steps 1 to 3 of the call take their time.
TimedSelect ==
  /\ tpc = "select"
  /\ \E e \in Elapsed(timeoutMs) : nowMs' = Add32(startMs, e)
  /\ tpc' = "residual"
  /\ UNCHANGED << untimed, timeoutMs, startMs, timeout, deltaMs >>

TimedReturn ==
  /\ tpc = "residual"
  /\ deltaMs' = Residual(startMs, timeoutMs, nowMs)
  /\ tpc' = "done"
  /\ UNCHANGED << untimed, timeoutMs, startMs, nowMs, timeout >>

----------------------------------------------------------------------------
(* HTTPServer::connectionTask and the connection it runs (built with       *)
(* HTTPS_TASK_PER_CONNECTION)                                              *)

envFrame == << maxConnections, taskPerConnection, _defaultHeaders, clock, _socket, _running,
               _pendingConnection, pc, loopVars, overwrote, sweeps, setupVars,
               ret >>

\* int res = connection->acceptConnection();
WorkerAccept(i) ==
  /\ taskPerConnection
  /\ _connections[i].st = "init"
  /\ \E a \in acceptConnection(backlog) :
       /\ _connections' = [_connections EXCEPT
                             ![i].st = IF a.res > 0 THEN "open" ELSE "failed"]
       /\ backlog' = a.left
  /\ UNCHANGED << envFrame, _pendingQueue >>

\* The connection of a running or finished task ends (its peer closes, an
\* error, a timeout): isTerminated() reports true from now on.
ConnTerminate(i) ==
  /\ taskPerConnection
  /\ _connections[i].st \in {"open", "failed", "exited"}
  /\ ~_connections[i].term
  /\ _connections' = [_connections EXCEPT ![i].term = TRUE]
  /\ UNCHANGED << envFrame, _pendingQueue, backlog >>

\* An idle connection's task takes the item from the pending queue and ends
\* its connection to make room.
WorkerTakePending(i) ==
  /\ taskPerConnection
  /\ _connections[i].st = "open"
  /\ ~_connections[i].term
  /\ Len(_pendingQueue) > 0
  /\ _pendingQueue' = Tail(_pendingQueue)
  /\ _connections' = [_connections EXCEPT ![i].term = TRUE]
  /\ UNCHANGED << envFrame, backlog >>

\* continuosLoop() has returned, or the accept failed:
\* connection->_taskHandle = NULL; vTaskDelete(NULL);
WorkerExit(i) ==
  /\ taskPerConnection
  /\ \/ _connections[i].st = "failed"
     \/ _connections[i].st = "open" /\ _connections[i].term
  /\ _connections' = [_connections EXCEPT ![i].st = "exited"]
  /\ UNCHANGED << envFrame, _pendingQueue, backlog >>

----------------------------------------------------------------------------

\* The server context and the transport.
ServerNext ==
  \/ StartCall
  \/ SetupSocket
  \/ SetupBind
  \/ SetupListen
  \/ StartReturn
  \/ StopCall
  \/ StopSweep
  \/ StopTeardown
  \/ LoopCall
  \/ LoopScan
  \/ LoopPending
  \/ LoopPoll
  \/ LoopReturn
  \/ Arrive
  \/ InboundAbort

\* The connection tasks.
WorkerNext ==
  \/ \E i \in Slots : WorkerAccept(i)
  \/ \E i \in Slots : ConnTerminate(i)
  \/ \E i \in Slots : WorkerTakePending(i)
  \/ \E i \in Slots : WorkerExit(i)

Next == ServerNext \/ WorkerNext

Spec == Init /\ [][Next]_vars

\* stop() keeps executing once called: delay(1) returns and the loop goes on.
FairSpec == Spec /\ WF_vars(StopSweep) /\ WF_vars(StopTeardown)

\* One loop() call on a server that is stopped or running, with its budget
\* and the clock drawn from the samples.
TimeInit ==
  /\ maxConnections = 1
  /\ taskPerConnection = FALSE
  /\ _connections = [i \in 0 .. 0 |-> NULL]
  /\ _running \in BOOLEAN
  /\ _socket = IF _running THEN 0 ELSE -1
  /\ setup = IF _running THEN "ok" ELSE "none"
  /\ ret = IF _running THEN "start_1" ELSE "none"
  /\ _pendingQueue = << >>
  /\ _pendingConnection = FALSE
  /\ backlog = 0
  /\ pc = "idle"
  /\ freeConnectionIdx = -1
  /\ entryGate = FALSE
  /\ reclaimed = {}
  /\ admits = << >>
  /\ overwrote = FALSE
  /\ sweeps = 0
  /\ setupRes = 0
  /\ _defaultHeaders = << >>
  /\ timeoutMs \in Budgets
  /\ nowMs \in StartTimes
  /\ startMs = U32(0)
  /\ timeout = [tv_sec |-> 0, tv_usec |-> 0]
  /\ deltaMs = 0
  /\ tpc = "entry"

TimeNext ==
  \/ TimedLoopCall
  \/ TimedTimeout
  \/ TimedSelect
  \/ TimedReturn

TimeSpec == TimeInit /\ [][TimeNext]_vars

\* The server built without HTTPS_TASK_PER_CONNECTION, with an application
\* that also sets default headers between its calls.
HeaderInit == Init /\ ~taskPerConnection

HeaderNext == ServerNext \/ SetDefaultHeader

HeaderSpec == HeaderInit /\ [][HeaderNext]_vars

----------------------------------------------------------------------------
(* Properties *)

Occupied(conns) == {i \in DOMAIN conns : conns[i] # NULL}

Free(conns) == {i \in DOMAIN conns : conns[i] = NULL}

AllOccupied == Free(_connections) = {}

AllEmpty == Occupied(_connections) = {}

Terminated(conns) == {i \in Occupied(conns) : isTerminated(conns[i])}

\* Lowest and highest index of an empty slot, -1 when there is none.
LowestFree(conns) ==
  IF Free(conns) = {} THEN -1
  ELSE CHOOSE i \in Free(conns) : \A j \in Free(conns) : i <= j

HighestFree(conns) ==
  IF Free(conns) = {} THEN -1
  ELSE CHOOSE i \in Free(conns) : \A j \in Free(conns) : j <= i

\* A step in which startConnection is invoked.
Admitting == Len(admits') > Len(admits)

\* C1: the slot array always has maxConnections cells, so at most that many
\* connections exist, and createConnection never stores a connection over a
\* slot that is not empty.
C1_BoundedNoOverwrite ==
  /\ DOMAIN _connections = Slots
  /\ Cardinality(Occupied(_connections)) <= maxConnections
  /\ ~overwrote
  /\ \A k \in 1 .. Len(admits) : admits[k] \in Slots

\* C1 witness: a loop() call that admitted twice has filled every slot of a
\* server with more than one slot.
C1_Witness ==
  /\ maxConnections >= 2
  /\ Len(admits) = 2
  /\ AllOccupied

C3_NothingCreatedInCall ==
  ( /\ pc = "loop_ret"
    /\ _pendingConnection
    /\ \A i \in Slots : _connections[i].st = "open" /\ ~isTerminated(_connections[i]) )
  => admits = << >>

\* C3 amended: when select() reports the listener and every slot is occupied,
\* the gate is raised and nothing is accepted or created from the poll on
\* (step 2 of the same call may have admitted the pending connection before
\* it); and no step taken while every slot is occupied invokes
\* startConnection.
C3_FullRaisesGate ==
  [][ /\ (pc = "loop_poll" /\ pc' = "loop_ret" /\ listenerReady /\ AllOccupied)
         => /\ _pendingConnection'
            /\ _connections' = _connections
            /\ backlog' = backlog
            /\ admits' = admits
      /\ AllOccupied => ~Admitting ]_vars

\* C3 witness: a call that began with the gate down ends with the gate up,
\* every slot holding an open connection and nothing admitted.
C3_Witness ==
  /\ pc = "loop_ret"
  /\ ~entryGate
  /\ _pendingConnection
  /\ admits = << >>
  /\ \A i \in Slots : _connections[i] # NULL /\ ~isTerminated(_connections[i])

\* C4 as stated: one loop() call invokes startConnection at most once.
C4_AtMostOne == Len(admits) <= 1

\* C4 amended: one loop() call invokes startConnection at most twice, at most
\* once in step 2 and at most once after select(); it does so twice only when
\* the gate was raised on entry, the first time for the pending connection.
C4_AtMostTwo ==
  /\ Len(admits) <= 2
  /\ pc \in {"loop_scan", "loop_pending"} => admits = << >>
  /\ pc = "loop_poll" => Len(admits) <= 1
  /\ (pc = "loop_poll" /\ Len(admits) = 1) => entryGate
  /\ Len(admits) = 2 => (entryGate /\ pc = "loop_ret")
  /\ pc \notin {"loop_scan", "loop_pending", "loop_poll", "loop_ret"} => admits = << >>

\* C4 witness: one call installed the pending connection and a new one, in
\* two different slots.
C4_Witness ==
  /\ Len(admits) = 2
  /\ admits[1] # admits[2]
  /\ _connections[admits[1]] # NULL
  /\ _connections[admits[2]] # NULL

\* C5: the scan reclaims every terminated occupant before anything is
\* admitted, and when the gate is raised and the scan reclaimed a slot, step 2
\* of the same call invokes startConnection on a reclaimed slot and lowers the
\* gate.
C5_ReclaimThenAdmit ==
  [][ /\ (pc = "loop_scan" /\ pc' = "loop_pending")
         => /\ reclaimed' = Terminated(_connections)
            /\ \A i \in reclaimed' : _connections'[i] = NULL
            /\ admits' = << >>
      /\ (pc = "loop_pending" /\ pc' = "loop_poll" /\ entryGate /\ reclaimed # {})
         => /\ Len(admits') = 1
            /\ admits'[1] \in reclaimed
            /\ ~_pendingConnection' ]_vars

\* C5 witness: the pending connection sits in a slot the same call reclaimed.
C5_Witness ==
  /\ pc = "loop_poll"
  /\ entryGate
  /\ Len(admits) = 1
  /\ admits[1] \in reclaimed
  /\ _connections[admits[1]] # NULL

\* C6: a second reclamation pass over the array the first pass left changes
\* nothing and finds the same free index.
C6_ReclaimIdempotent ==
  LET once == ProcessConnections(_connections, maxConnections)
      twice == ProcessConnections(once.conns, maxConnections)
  IN /\ twice.conns = once.conns
     /\ twice.free = once.free

\* C6 witness: the scan is about to run over two terminated occupants.
C6_Witness ==
  /\ pc = "loop_scan"
  /\ Cardinality(Terminated(_connections)) >= 2

\* C7: when stop() has returned every slot is empty and the listener is -1.
C7_StopLeavesNothing ==
  (pc = "idle" /\ ret = "stop") => (AllEmpty /\ _socket = -1 /\ ~_running)

\* C7 witness: stop() has returned after more than one sweep.
C7_Witness ==
  /\ pc = "idle"
  /\ ret = "stop"
  /\ sweeps >= 2

SomeStubborn == \E i \in Slots : _connections[i].stubborn

\* C8: a stop() whose occupants all acknowledge the close after finitely many
\* requests returns; a stop() with an occupant that never does stays in the
\* sweep loop.
C8_StopTerminatesIffAcknowledged ==
  /\ (pc = "stop_sweep" /\ ~SomeStubborn) ~> (pc = "idle" /\ ret = "stop")
  /\ [][(pc = "stop_sweep" /\ SomeStubborn) => pc' = "stop_sweep"]_vars

\* C8 witness: past the sweeps any responsive peer needs, stop() is still
\* sweeping because of an occupant that never acknowledges.
C8_Witness ==
  /\ pc = "stop_sweep"
  /\ sweeps > MaxCloseReq
  /\ SomeStubborn

\* C9 as stated: in every state, intermediate ones included, the listener is
\* valid exactly when the running flag is set.
C9_ValidIffRunningAlways == (_socket >= 0) <=> _running

\* C9 amended: between public operations the listener is valid exactly when
\* the running flag is set; inside start() and stop() the flag implies a valid
\* listener, not the converse.
C9_ValidIffRunningBetweenCalls ==
  /\ pc = "idle" => ((_socket >= 0) <=> _running)
  /\ _running => _socket >= 0

\* C9 witness: a server that was started and stopped again.
C9_Witness ==
  /\ pc = "idle"
  /\ ret = "stop"
  /\ setup = "ok"
  /\ _socket = -1
  /\ ~_running

C12_ResidualWithinBudget ==
  tpc = "done" =>
    IF ~_running
    THEN deltaMs = 0
    ELSE LET elapsed == Sub32(nowMs, startMs)
             within == ~Above7FFFFFFF(elapsed) /\ AsInt(elapsed) <= timeoutMs
         IN  /\ 0 <= deltaMs
             /\ deltaMs <= timeoutMs
             /\ deltaMs = IF within THEN timeoutMs - AsInt(elapsed) ELSE 0

\* C16: the timeval handed to select() for a budget of b milliseconds stands
\* for exactly b milliseconds, with tv_usec below one second.
C16_TimeoutIsBudget ==
  tpc \in {"select", "residual", "done"} /\ _running =>
    /\ timeout.tv_usec >= 0
    /\ timeout.tv_usec < 1000000
    /\ timeout.tv_sec * 1000 + timeout.tv_usec \div 1000 = timeoutMs

\* The value a header mapping gives a name, "" when it has none.
HeaderValue(headers, name) ==
  IF \E k \in 1 .. Len(headers) : headers[k].name = name
  THEN headers[CHOOSE k \in 1 .. Len(headers) : headers[k].name = name].value
  ELSE ""

C13_FailedAdmissionRollsBack ==
  [][Admitting =>
       LET idx == admits'[Len(admits')]
       IN  IF _connections'[idx] = NULL
           THEN _connections' = _connections
           ELSE _connections'[idx].st = IF taskPerConnection THEN "init" ELSE "open"]_vars

\* A step that raises, or lowers, the gate.
GateRaised == ~_pendingConnection /\ _pendingConnection'
GateLowered == _pendingConnection /\ ~_pendingConnection'

\* A step that leaves a new connection in a slot that was empty.
Installs == \E i \in Slots : _connections[i] = NULL /\ _connections'[i] # NULL

\* C14 as stated: the gate is raised only when the poll reports the listener
\* ready while no slot is free, and it is lowered exactly by the steps that
\* install the pending connection in a slot.
C14_GateLoweredByInstall ==
  [][/\ GateRaised => (pc = "loop_poll" /\ listenerReady /\ AllOccupied)
     /\ GateLowered => Installs
     /\ (pc = "loop_pending" /\ Installs) => ~_pendingConnection']_vars

\* C14 amended: the gate is raised only when the poll reports the listener
\* ready while no slot is free, and it is lowered exactly by the steps in
\* which step 2 of loop() calls startConnection for the pending connection,
\* whether or not a connection is left in the slot.
C14_GateLoweredByStartConnection ==
  [][/\ GateRaised => (pc = "loop_poll" /\ listenerReady /\ AllOccupied)
     /\ GateLowered => (pc = "loop_pending" /\ Admitting)
     /\ (pc = "loop_pending" /\ Admitting) => (_pendingConnection /\ ~_pendingConnection')]_vars

\* C14 witness: step 2 of the running loop() call lowered the gate and its
\* admission failed, so the slot is empty again.
C14_Witness ==
  /\ pc = "loop_poll"
  /\ entryGate
  /\ ~_pendingConnection
  /\ Len(admits) = 1
  /\ _connections[admits[1]] = NULL

\* The poll step that executes _pendingConnection = true and the xQueueSend.
GateBranch ==
  /\ pc = "loop_poll"
  /\ pc' = "loop_ret"
  /\ afterSelect(listenerReady, freeConnectionIdx, _pendingConnection) = "gate"

\* C15: the gate is raised only while it is lowered and no slot is free, and
\* the send that goes with it finds the queue empty; once raised the gate is
\* lowered only by a startConnection call, so one lies between any two
\* raisings; and whenever the queue holds an item the gate is raised.
C15_GateAndQueueInStep ==
  /\ [](Len(_pendingQueue) > 0 => _pendingConnection)
  /\ [](Len(_pendingQueue) <= QueueLength)
  /\ [][/\ GateBranch => /\ ~_pendingConnection
                         /\ AllOccupied
                         /\ Len(_pendingQueue) = 0
                         /\ Len(_pendingQueue') = 1
        /\ GateRaised => GateBranch
        /\ GateLowered => Admitting]_vars

\* C15 witness: the running loop() call found the gate raised, lowered it in
\* startConnection, and its poll raised it again with a send into the empty
\* queue.
C15_Witness ==
  /\ pc = "loop_ret"
  /\ entryGate
  /\ Len(admits) = 1
  /\ _pendingConnection
  /\ Len(_pendingQueue) = 1

\* A step of the server context inside loop().
LoopStep == pc \in {"loop_scan", "loop_pending", "loop_poll"} /\ pc' # pc

\* A connection but for what isTerminated() reports.
Identity(c) == [c EXCEPT !.term = FALSE]

\* C17: a step of loop() empties an occupied slot only if its occupant
\* reported terminated, stores a new connection only in a slot that is empty,
\* and leaves every other occupant the connection it was; outside loop() an
\* occupant is destroyed only by a sweep of stop() in which it reported
\* closed.
C17_LiveConnectionsKept ==
  [][\A i \in Slots :
       _connections[i] # NULL =>
         /\ LoopStep =>
              /\ _connections'[i] = NULL
                   => (pc = "loop_scan" /\ isTerminated(_connections[i]))
              /\ _connections'[i] # NULL
                   => Identity(_connections'[i]) = Identity(_connections[i])
              /\ Admitting => admits'[Len(admits')] # i
         /\ (~LoopStep /\ _connections'[i] = NULL)
              => (pc = "stop_sweep" /\ ~_connections[i].stubborn)]_vars

\* C17 witness: the running loop() call admitted the pending connection in
\* step 2 while another slot holds a connection that is open and not
\* terminated.
C17_Witness ==
  /\ pc = "loop_poll"
  /\ entryGate
  /\ Len(admits) = 1
  /\ \E i, j \in Slots :
       /\ i # j
       /\ admits[1] = i
       /\ _connections[i] # NULL
       /\ _connections[j].st = "open"
       /\ ~isTerminated(_connections[j])

\* The task of connection c was created and has not reached vTaskDelete.
WorkerExecuting(c) == taskPerConnection /\ c.st \in {"init", "open", "failed"}

\* A step in which the server context goes through the occupied slots: the
\* scan of loop() (isTerminated(), _socket, delete) or a sweep of stop()
\* (closeConnection(), isClosed(), delete).
ServerTouchesOccupants ==
  \/ pc = "loop_scan" /\ pc' = "loop_pending"
  \/ pc = "stop_sweep" /\ (pc' # pc \/ sweeps' # sweeps)

\* C18: built with a task per connection, the server context goes through
\* the occupied slots only when no occupant's task is still executing on it.
C18_NoConcurrentTouch ==
  [][ServerTouchesOccupants
       => \A i \in Slots :
            _connections[i] # NULL => ~WorkerExecuting(_connections[i])]_vars

\* C19: when start() returns with the server running, whatever happened
\* before (a gate raised, then stop()), the gate is lowered and the queue is
\* empty, so that the first loop() finds the listener in its read set and
\* admits only what its own poll reports.
C19_StartFindsGateLowered ==
  [][(pc = "start_ret" /\ pc' = "idle" /\ _running')
       => (~_pendingConnection' /\ Len(_pendingQueue') = 0)]_vars

\* The connections whose task was created and has not yet run
\* acceptConnection().
Unaccepted(conns) == {i \in Occupied(conns) : conns[i].st = "init"}

\* C20: built with a task per connection, an admission that adds a
\* connection still waiting for its accept leaves no more such connections
\* than there are inbound connections queued on the listener.
C20_OneConnectionPerInbound ==
  [][(/\ taskPerConnection
      /\ Admitting
      /\ Cardinality(Unaccepted(_connections')) > Cardinality(Unaccepted(_connections)))
       => Cardinality(Unaccepted(_connections')) <= backlog']_vars
====
